---- MODULE Spec2Model ----
(***************************************************************************)
(* State-machine model of the BYN backend's feed / connections logic:      *)
(* connection requests and connections (connections/views.py), posts,      *)
(* reactions, shares, comments and the visibility filter (feed/views.py),  *)
(* and the notification emitter (feed/utils.py).                           *)
(*                                                                         *)
(* Every request is handled start to finish by one worker, so each handler *)
(* is one atomic action.  The database tables are the variables; `resp`    *)
(* is the HTTP response of the last request; `now` is the wall clock in    *)
(* minutes.                                                                *)
(***************************************************************************)
EXTENDS Integers, Sequences, FiniteSets, TLC

-----------------------------------------------------------------------------
\* Bounds of the model
MaxPosts == 1
MaxFeedPosts == 2
MaxComments == 2
MaxTime == 6
MaxTick == 3
MaxRequests == 4
MaxViewTime == 47

\* Program constants
NotifWindow == 5          \* timedelta(minutes=5) in create_notification
ViewWindow == 30          \* timedelta(minutes=30) in track_post_view
TrendingWindow == 1440    \* timedelta(hours=24) in PostViewSet.trending
ReportThreshold == 3      \* report_count >= 3 in PostViewSet.report

Users == {"u1", "u2"}
Anon == "anon"            \* request.user of an unauthenticated request
Viewers == Users \cup {Anon}
Reporters == Users \cup {"u3"}     \* the users who may report a post
Visibilities == {"public", "connections", "private"}
ReactionTypes == {"like", "love", "wow"}
HashtagNames == {"h1"}
Jobs == {"j1", "j2"}
NoPost == 0               \* post=None / comment=None of a notification
NoComment == 0
NoTime == -1              \* read_at = NULL of a notification

VARIABLES
    now,            \* timezone.now(), minutes
    requests,       \* ConnectionRequest rows: <<sender, receiver>> -> status ("none": no row)
    connections,    \* Connection rows: set of <<user1, user2>> (the originating request)
    posts,          \* Post rows, id = index
    hashtags,       \* Hashtag rows: name -> posts_count, for the rows that exist
    postLikes,      \* PostLike rows
    postShares,     \* PostShare rows
    comments,       \* Comment rows, id = index
    postViews,      \* PostView rows
    notifications,  \* Notification rows
    lastEmit,       \* history: per notification tuple, the last create_notification call
    feedAlgorithms, \* FeedAlgorithm rows: user -> row, for the rows that exist
    inflight,       \* requests being served by concurrent workers: user -> request
    served,         \* number of requests taken up by concurrent workers
    requestMessages, \* ConnectionRequest.message: <<sender, receiver>> -> text
    jobApplications, \* JobApplication rows, id = index: <<job, applicant>>
    applicationCount, \* Job.application_count: job -> count
    postReports,    \* PostReport rows, id = index: <<reporter, post>>
    responders,     \* respond / withdraw requests being served concurrently: user -> request
    emitters,       \* create_notification calls between their check and their insert
    resp            \* response of the last request

vars == <<now, requests, connections, posts, hashtags, postLikes, postShares,
          comments, postViews, notifications, lastEmit, feedAlgorithms, inflight,
          served, requestMessages, jobApplications, applicationCount, postReports,
          responders, emitters, resp>>

connVars == <<requests, connections>>
feedVars == <<posts, hashtags, postLikes, postShares, comments, postViews>>
moreVars == <<requestMessages, jobApplications, applicationCount, postReports,
              responders, emitters>>
sideVars == <<feedAlgorithms, inflight, served, moreVars>>

Pairs == {pr \in Users \X Users : pr[1] # pr[2]}
PostIds == 1..Len(posts)
CommentIds == 1..Len(comments)

-----------------------------------------------------------------------------
\* Responses

Response(op, user, post, req, status, data, listed) ==
    [op |-> op, user |-> user, post |-> post, req |-> req, arg |-> "",
     status |-> status, data |-> data, posts |-> listed]

\* a response to a request that carries a choice (a reaction type)
ResponseTo(op, user, post, arg, status, data) ==
    [op |-> op, user |-> user, post |-> post, req |-> <<>>, arg |-> arg,
     status |-> status, data |-> data, posts |-> {}]

-----------------------------------------------------------------------------
\* feed/utils.py: create_notification

NotifKey(recipient, sender, ntype, post, comment) ==
    [recipient |-> recipient, sender |-> sender, notification_type |-> ntype,
     post |-> post, comment |-> comment]

KeyOf(n) == NotifKey(n.recipient, n.sender, n.notification_type, n.post, n.comment)

\* the `existing` query: an identical tuple created within the last 5 minutes
ExistingMutNoWindow(N, key, t) ==
    \E n \in N : KeyOf(n) = key

Existing(N, key, t) ==
    \E n \in N : KeyOf(n) = key /\ n.created_at >= t - NotifWindow

\* (`copy` stands for the id that tells apart rows equal in every other column:
\* the number of such rows already stored)
NewNotification(key, title, t) ==
    [recipient |-> key.recipient, sender |-> key.sender,
     notification_type |-> key.notification_type, title |-> title,
     post |-> key.post, comment |-> key.comment,
     created_at |-> t, is_read |-> FALSE, read_at |-> NoTime, copy |-> 0]

\* the Notification table after the call
create_notification(N, key, title, t) ==
    IF ~Existing(N, key, t) THEN N \cup {NewNotification(key, title, t)} ELSE N

\* the history of calls after a call with `key` at time t on table N
RecordEmit(L, N, key, t) ==
    [k \in DOMAIN L \cup {key} |->
        IF k = key THEN [at |-> t, created |-> ~Existing(N, key, t)] ELSE L[k]]

\* a loop of create_notification calls, one per recipient, same sender/kind/post
RECURSIVE NotifyEach(_, _, _, _, _, _, _, _)
NotifyEach(N, recipients, sender, ntype, title, post, comment, t) ==
    IF recipients = {} THEN N
    ELSE LET r == CHOOSE x \in recipients : TRUE
         IN NotifyEach(create_notification(N, NotifKey(r, sender, ntype, post, comment), title, t),
                       recipients \ {r}, sender, ntype, title, post, comment, t)

-----------------------------------------------------------------------------
\* connections/views.py

\* get_user_connections: the other user of every Connection row of `user`
get_user_connectionsMutUser1Only(user) ==
    {c[2] : c \in {d \in connections : d[1] = user}}

get_user_connections(user) ==
    {IF c[1] = user THEN c[2] ELSE c[1] :
        c \in {d \in connections : d[1] = user \/ d[2] = user}}

\* ConnectionRequestViewSet.get_queryset
RequestQueryset(user) ==
    {pr \in Pairs : requests[pr] # "none" /\ (pr[1] = user \/ pr[2] = user)}

\* ConnectionViewSet.get_queryset
ConnectionQueryset(user) ==
    {c \in connections : c[1] = user \/ c[2] = user}

\* the row get_or_create found is still pending
AlreadySentMutNever(user, receiver) ==
    FALSE

AlreadySent(user, receiver) ==
    requests[<<user, receiver>>] = "pending"

\* ConnectionRequestViewSet.create
ConnectionRequestCreate(user, receiver, message) ==
    LET key == NotifKey(receiver, user, "connection_request", NoPost, NoComment)
        bad(msg) == /\ resp' = [Response("request_create", user, NoPost, <<user, receiver>>,
                                         400, msg, {}) EXCEPT !.arg = message]
                    /\ UNCHANGED <<now, connVars, feedVars, notifications, lastEmit, sideVars>>
    IN
    IF receiver = user THEN bad("self")
    ELSE IF \E c \in connections : c = <<user, receiver>> \/ c = <<receiver, user>>
    THEN bad("already_connected")
    ELSE IF AlreadySent(user, receiver) THEN bad("already_sent")
    ELSE /\ requests' = [requests EXCEPT ![<<user, receiver>>] = "pending"]
         /\ requestMessages' = [requestMessages EXCEPT ![<<user, receiver>>] = message]
         /\ notifications' = create_notification(notifications, key, "sent_request", now)
         /\ resp' = [Response("request_create", user, NoPost, <<user, receiver>>,
                              201, "created", {}) EXCEPT !.arg = message]
         /\ UNCHANGED <<now, connections, feedVars, lastEmit, feedAlgorithms, inflight, served,
                        jobApplications, applicationCount, postReports, responders,
                        emitters>>

\* connection_request.status != 'pending' is false
IsPendingMutAlways(req) ==
    TRUE

IsPending(req) ==
    requests[req] = "pending"

\* the notification of an accept
AcceptNotificationKey(user, req) ==
    NotifKey(req[1], user, "connection_request", NoPost, NoComment)

\* ConnectionRequestViewSet.respond
Respond(user, req, action_type) ==
    LET out(status, msg) ==
            /\ resp' = Response("respond", user, NoPost, req, status, msg, {})
            /\ UNCHANGED <<now, connVars, feedVars, notifications, lastEmit, sideVars>>
    IN
    IF req \notin RequestQueryset(user) THEN out(404, "not_found")
    ELSE IF req[2] # user THEN out(403, "not_receiver")
    ELSE IF ~IsPending(req) THEN out(400, "already_responded")
    ELSE IF action_type \notin {"accept", "decline"} THEN out(400, "bad_action")
    ELSE IF action_type = "accept"
    THEN /\ requests' = [requests EXCEPT ![req] = "accepted"]
         /\ connections' = connections \cup {req}
         /\ notifications' = create_notification(notifications, AcceptNotificationKey(user, req),
                                                 "accepted_request", now)
         /\ resp' = Response("respond", user, NoPost, req, 200, "accepted", {})
         /\ UNCHANGED <<now, feedVars, lastEmit, sideVars>>
    ELSE /\ requests' = [requests EXCEPT ![req] = "declined"]
         /\ resp' = Response("respond", user, NoPost, req, 200, "declined", {})
         /\ UNCHANGED <<now, connections, feedVars, notifications, lastEmit, sideVars>>

\* ConnectionRequestViewSet.withdraw
Withdraw(user, req) ==
    LET out(status, msg) ==
            /\ resp' = Response("withdraw", user, NoPost, req, status, msg, {})
            /\ UNCHANGED <<now, connVars, feedVars, notifications, lastEmit, sideVars>>
    IN
    IF req \notin RequestQueryset(user) THEN out(404, "not_found")
    ELSE IF req[1] # user THEN out(403, "not_sender")
    ELSE IF ~IsPending(req) THEN out(400, "not_pending")
    ELSE /\ requests' = [requests EXCEPT ![req] = "withdrawn"]
         /\ resp' = Response("withdraw", user, NoPost, req, 200, "withdrawn", {})
         /\ UNCHANGED <<now, connections, feedVars, notifications, lastEmit, sideVars>>

\* ConnectionViewSet.remove
Remove(user, conn) ==
    IF conn \notin ConnectionQueryset(user)
    THEN /\ resp' = Response("remove", user, NoPost, conn, 404, "not_found", {})
         /\ UNCHANGED <<now, connVars, feedVars, notifications, lastEmit, sideVars>>
    ELSE /\ connections' = connections \ {conn}
         /\ resp' = Response("remove", user, NoPost, conn, 200, "removed", {})
         /\ UNCHANGED <<now, requests, feedVars, notifications, lastEmit, sideVars>>

-----------------------------------------------------------------------------
\* feed/views.py: PostViewSet

\* permission_classes = [IsAuthenticated]
IsAuthenticated(user) == user # Anon

\* PostViewSet.get_queryset: the posts the viewer may list, retrieve or act on
GetQueryset(user) ==
    IF IsAuthenticated(user)
    THEN {p \in PostIds :
            /\ \/ posts[p].visibility = "public"
               \/ posts[p].visibility = "connections" /\ posts[p].author \in get_user_connections(user)
               \/ posts[p].visibility = "private" /\ posts[p].author = user
               \/ posts[p].author = user
            /\ posts[p].is_approved}
    ELSE {p \in PostIds : posts[p].visibility = "public" /\ posts[p].is_approved}

\* PostCreateSerializer.create: the hashtag rows after tagging a new post
TagHashtags(tags) ==
    [h \in DOMAIN hashtags \cup tags |->
        IF h \in tags
        THEN (IF h \in DOMAIN hashtags THEN hashtags[h] ELSE 0) + 1
        ELSE hashtags[h]]

\* PostViewSet.create
PostCreate(user, visibility, tags, mentioned) ==
    LET id == Len(posts) + 1
        post == [author |-> user, visibility |-> visibility, hashtags |-> tags,
                 is_approved |-> TRUE, likes_count |-> 0, comments_count |-> 0,
                 shares_count |-> 0, views_count |-> 0, created_at |-> now,
                 is_reported |-> FALSE]
        afterMentions == NotifyEach(notifications, mentioned, user, "mention",
                                    "mentioned_in_post", id, NoComment, now)
        toNotify == IF visibility = "public"
                    THEN get_user_connections(user) \ mentioned ELSE {}
    IN
    /\ Len(posts) < MaxFeedPosts
    /\ posts' = Append(posts, post)
    /\ hashtags' = TagHashtags(tags)
    /\ notifications' = NotifyEach(afterMentions, toNotify, user, "connection_post",
                                   "shared_a_new_post", id, NoComment, now)
    /\ resp' = Response("post_create", user, id, <<>>, 201, "created", {id})
    /\ UNCHANGED <<now, connVars, postLikes, postShares, comments, postViews, lastEmit, sideVars>>

\* PostViewSet.list: status and the posts returned
PostList(user) ==
    IF ~IsAuthenticated(user)
    THEN [status |-> 401, posts |-> {}]
    ELSE [status |-> 200, posts |-> GetQueryset(user)]

\* queryset.order_by('-created_at'), as the sequence of ids returned (posts with
\* equal created_at come in the order the database picks: here the CHOOSE)
RECURSIVE OrderByCreatedDescMutAscending(_)
OrderByCreatedDescMutAscending(S) ==
    IF S = {} THEN <<>>
    ELSE LET first == CHOOSE p \in S : \A q \in S : posts[q].created_at >= posts[p].created_at
         IN <<first>> \o OrderByCreatedDescMutAscending(S \ {first})

RECURSIVE OrderByCreatedDesc(_)
OrderByCreatedDesc(S) ==
    IF S = {} THEN <<>>
    ELSE LET first == CHOOSE p \in S : \A q \in S : posts[q].created_at <= posts[p].created_at
         IN <<first>> \o OrderByCreatedDesc(S \ {first})

\* PostViewSet.feed: the same queryset, most recent first
PostFeed(user) ==
    IF ~IsAuthenticated(user)
    THEN [status |-> 401, posts |-> {}, ordered |-> <<>>]
    ELSE [status |-> 200, posts |-> GetQueryset(user),
          ordered |-> OrderByCreatedDesc(GetQueryset(user))]

\* PostViewSet.trending: the posts of the last 24 hours
PostTrending(user) ==
    IF ~IsAuthenticated(user)
    THEN [status |-> 401, posts |-> {}]
    ELSE [status |-> 200,
          posts |-> {p \in GetQueryset(user) : posts[p].created_at >= now - TrendingWindow}]

\* HashtagViewSet.posts (permission_classes = [IsAuthenticatedOrReadOnly]: a GET by anyone)
HashtagPosts(user, hashtag) ==
    IF hashtag \notin DOMAIN hashtags
    THEN [status |-> 404, posts |-> {}]
    ELSE [status |-> 200,
          posts |-> {p \in PostIds : hashtag \in posts[p].hashtags /\ posts[p].is_approved}]

\* PostViewSet.retrieve: the status of the response (200: the post is returned)
RetrieveStatus(user, post) ==
    IF ~IsAuthenticated(user) THEN 401
    ELSE IF post \notin GetQueryset(user) THEN 404
    ELSE 200

\* feed/utils.py: track_post_view, for an authenticated viewer
RecentViewMutNoWindow(post, user) ==
    \E v \in postViews : v.post = post /\ v.user = user

RecentView(post, user) ==
    \E v \in postViews : v.post = post /\ v.user = user /\ v.viewed_at >= now - ViewWindow

track_post_view(post, user) ==
    IF ~RecentView(post, user)
    THEN /\ postViews' = postViews \cup {[post |-> post, user |-> user, viewed_at |-> now]}
         /\ posts' = [posts EXCEPT ![post].views_count = @ + 1]
    ELSE UNCHANGED <<postViews, posts>>

\* PostViewSet.retrieve
PostRetrieve(user, post) ==
    /\ resp' = Response("retrieve", user, post, <<>>, RetrieveStatus(user, post),
                        IF RetrieveStatus(user, post) = 200 THEN "ok" ELSE "error",
                        IF RetrieveStatus(user, post) = 200 THEN {post} ELSE {})
    /\ IF RetrieveStatus(user, post) = 200
       THEN track_post_view(post, user)
       ELSE UNCHANGED <<postViews, posts>>
    /\ UNCHANGED <<now, connVars, hashtags, postLikes, postShares, comments,
                   notifications, lastEmit, sideVars>>

-----------------------------------------------------------------------------
\* feed/views.py: engagement on a post

LikesOf(user, post) == {l \in postLikes : l.user = user /\ l.post = post}
SharesOf(user, post) == {sh \in postShares : sh.user = user /\ sh.post = post}

\* max(0, post.likes_count - 1)
DecrementMutKeep(count) == count

Decrement(count) == IF count - 1 > 0 THEN count - 1 ELSE 0

\* F('likes_count') + 1
IncrementMutNone(count) == count

Increment(count) == count + 1

\* like.reaction_type = reaction_type; like.save()
UpdateReactionMutInsert(like, reaction_type) ==
    postLikes \cup {[like EXCEPT !.reaction_type = reaction_type]}

UpdateReaction(like, reaction_type) ==
    (postLikes \ {like}) \cup {[like EXCEPT !.reaction_type = reaction_type]}

\* the Notification table after the `like` notification of a new reaction
LikeNotificationMutNoDedup(N, user, post) ==
    IF posts[post].author # user
    THEN N \cup {NewNotification(NotifKey(posts[post].author, user, "like", post, NoComment),
                                 "reacted_to_your_post", now)}
    ELSE N

LikeNotification(N, user, post) ==
    IF posts[post].author # user
    THEN create_notification(N, NotifKey(posts[post].author, user, "like", post, NoComment),
                             "reacted_to_your_post", now)
    ELSE N

\* PostViewSet.like
PostLike(user, post, reaction_type) ==
    IF post \notin GetQueryset(user)
    THEN /\ resp' = ResponseTo("like", user, post, reaction_type, 404, "not_found")
         /\ UNCHANGED <<now, connVars, feedVars, notifications, lastEmit, sideVars>>
    ELSE IF LikesOf(user, post) # {}
    THEN LET like == CHOOSE l \in LikesOf(user, post) : TRUE
         IN IF like.reaction_type = reaction_type
            THEN \* same reaction: remove it
                 /\ postLikes' = postLikes \ {like}
                 /\ posts' = [posts EXCEPT ![post].likes_count = Decrement(@)]
                 /\ resp' = ResponseTo("like", user, post, reaction_type, 200, "unliked")
                 /\ UNCHANGED <<now, connVars, hashtags, postShares, comments, postViews,
                                notifications, lastEmit, sideVars>>
            ELSE \* another reaction: update it in place
                 /\ postLikes' = UpdateReaction(like, reaction_type)
                 /\ resp' = ResponseTo("like", user, post, reaction_type, 200, "reaction_updated")
                 /\ UNCHANGED <<now, connVars, posts, hashtags, postShares, comments,
                                postViews, notifications, lastEmit, sideVars>>
    ELSE \* new reaction
         /\ postLikes' = postLikes \cup
                            {[user |-> user, post |-> post, reaction_type |-> reaction_type]}
         /\ posts' = [posts EXCEPT ![post].likes_count = Increment(@)]
         /\ notifications' = LikeNotification(notifications, user, post)
         /\ resp' = ResponseTo("like", user, post, reaction_type, 200, "liked")
         /\ UNCHANGED <<now, connVars, hashtags, postShares, comments, postViews, lastEmit, sideVars>>

\* PostShare.objects.get_or_create(user, post, defaults={share_content}): the rows after it
GetOrCreateShareMutAlwaysInsert(user, post, share_content) ==
    postShares \cup {[user |-> user, post |-> post, share_content |-> share_content]}

GetOrCreateShare(user, post, share_content) ==
    IF SharesOf(user, post) # {} THEN postShares
    ELSE postShares \cup {[user |-> user, post |-> post, share_content |-> share_content]}

\* PostViewSet.share.  The notification's title calls request.user.full_name(),
\* and full_name is a property (a str): building the title raises TypeError after the
\* row and the counter were saved, and the request ends 500 with no notification.
PostShare(user, post, share_content) ==
    IF post \notin GetQueryset(user)
    THEN /\ resp' = ResponseTo("share", user, post, share_content, 404, "not_found")
         /\ UNCHANGED <<now, connVars, feedVars, notifications, lastEmit, sideVars>>
    ELSE IF SharesOf(user, post) # {}
    THEN /\ postShares' = GetOrCreateShare(user, post, share_content)
         /\ resp' = ResponseTo("share", user, post, share_content, 200, "already_shared")
         /\ UNCHANGED <<now, connVars, posts, hashtags, postLikes, comments, postViews,
                        notifications, lastEmit, sideVars>>
    ELSE /\ postShares' = GetOrCreateShare(user, post, share_content)
         /\ posts' = [posts EXCEPT ![post].shares_count = @ + 1]
         /\ resp' = IF posts[post].author # user
                    THEN ResponseTo("share", user, post, share_content, 500, "type_error")
                    ELSE ResponseTo("share", user, post, share_content, 200, "shared")
         /\ UNCHANGED <<now, connVars, hashtags, postLikes, comments, postViews,
                        notifications, lastEmit, sideVars>>

\* PostViewSet.update with PostUpdateSerializer (visibility only): permission_classes
\* holds IsAuthenticated alone, so any user whose queryset holds the post may update it
PostUpdate(user, post, visibility) ==
    IF post \notin GetQueryset(user)
    THEN /\ resp' = ResponseTo("post_update", user, post, visibility, 404, "not_found")
         /\ UNCHANGED <<now, connVars, feedVars, notifications, lastEmit, sideVars>>
    ELSE /\ posts' = [posts EXCEPT ![post].visibility = visibility]
         /\ resp' = ResponseTo("post_update", user, post, visibility, 200, "ok")
         /\ UNCHANGED <<now, connVars, hashtags, postLikes, postShares, comments, postViews,
                        notifications, lastEmit, sideVars>>

\* the Notification table after the `comment` notification of a new comment
CommentNotificationMutNotifyAuthor(N, user, post, comment) ==
    create_notification(N, NotifKey(posts[post].author, user, "comment", post, comment),
                        "commented_on_your_post", now)

CommentNotification(N, user, post, comment) ==
    IF posts[post].author # user
    THEN create_notification(N, NotifKey(posts[post].author, user, "comment", post, comment),
                             "commented_on_your_post", now)
    ELSE N

\* CommentViewSet.create (get_object_or_404(Post, id=post_id): any existing post)
CommentCreate(user, post, mentioned) ==
    LET id == Len(comments) + 1 IN
    /\ Len(comments) < MaxComments
    /\ comments' = Append(comments, [post |-> post, author |-> user, is_approved |-> TRUE,
                                   deleted |-> FALSE])
    /\ posts' = [posts EXCEPT ![post].comments_count = @ + 1]
    /\ notifications' = NotifyEach(CommentNotification(notifications, user, post, id),
                                   mentioned, user, "mention", "mentioned_in_comment",
                                   post, id, now)
    /\ resp' = Response("comment_create", user, post, <<>>, 201, "created", {})
    /\ UNCHANGED <<now, connVars, hashtags, postLikes, postShares, postViews, lastEmit, sideVars>>

\* CommentViewSet.get_queryset: the approved comments (a deleted row is kept in
\* `comments` with deleted = TRUE so that ids stay the indices)
CommentQueryset ==
    {c \in CommentIds : ~comments[c].deleted /\ comments[c].is_approved}

\* CommentViewSet.destroy, inherited from ModelViewSet: permission_classes holds
\* IsAuthenticated alone; the row is deleted, with the notifications that point to it
\* (on_delete=CASCADE), and the post's comments_count is not touched
CommentDelete(user, comment) ==
    IF comment \notin CommentQueryset
    THEN /\ resp' = Response("comment_delete", user, NoPost, <<>>, 404, "not_found", {})
         /\ UNCHANGED <<now, connVars, feedVars, notifications, lastEmit, sideVars>>
    ELSE /\ comments' = [comments EXCEPT ![comment].deleted = TRUE]
         /\ notifications' = {n \in notifications : n.comment # comment}
         /\ resp' = Response("comment_delete", user, comments[comment].post, <<>>, 204,
                             "deleted", {})
         /\ UNCHANGED <<now, connVars, posts, hashtags, postLikes, postShares, postViews,
                        lastEmit, sideVars>>

\* a call create_notification(recipient, sender, kind, ...) made on its own
EmitNotification(key) ==
    /\ notifications' = create_notification(notifications, key, "title", now)
    /\ lastEmit' = RecordEmit(lastEmit, notifications, key, now)
    /\ resp' = Response("emit", key.sender, key.post, <<>>, 0,
                        IF Existing(notifications, key, now) THEN "none" ELSE "created", {})
    /\ UNCHANGED <<now, connVars, feedVars, sideVars>>

\* Notification.mark_as_read: the row after the call at time t
mark_as_readMutAlways(n, t) ==
    [n EXCEPT !.is_read = TRUE, !.read_at = t]

mark_as_read(n, t) ==
    IF ~n.is_read THEN [n EXCEPT !.is_read = TRUE, !.read_at = t] ELSE n

\* NotificationViewSet.get_queryset
NotificationQueryset(user) ==
    {n \in notifications : n.recipient = user}

\* NotificationViewSet.mark_read
MarkRead(user, n) ==
    /\ IF n \notin NotificationQueryset(user)
       THEN /\ resp' = Response("mark_read", user, NoPost, <<>>, 404, "not_found", {})
            /\ UNCHANGED notifications
       ELSE /\ notifications' = (notifications \ {n}) \cup {mark_as_read(n, now)}
            /\ resp' = Response("mark_read", user, NoPost, <<>>, 200, "marked_read", {})
    /\ UNCHANGED <<now, connVars, feedVars, lastEmit, sideVars>>

\* NotificationViewSet.mark_all_read
MarkAllRead(user) ==
    LET unread == {n \in NotificationQueryset(user) : ~n.is_read}
    IN
    /\ notifications' = (notifications \ unread)
                            \cup {[n EXCEPT !.is_read = TRUE, !.read_at = now] : n \in unread}
    /\ resp' = Response("mark_all_read", user, NoPost, <<>>, 200, Cardinality(unread), {})
    /\ UNCHANGED <<now, connVars, feedVars, lastEmit, sideVars>>

\* NotificationAdmin.mark_as_read on the selected rows
AdminMarkAsRead(selected) ==
    LET unread == {n \in selected : ~n.is_read}
    IN
    /\ notifications' = (notifications \ unread) \cup {[n EXCEPT !.is_read = TRUE] : n \in unread}
    /\ resp' = Response("admin_mark_as_read", Anon, NoPost, <<>>, 200, Cardinality(unread), {})
    /\ UNCHANGED <<now, connVars, feedVars, lastEmit, sideVars>>

\* NotificationAdmin.mark_as_unread on the selected rows
AdminMarkAsUnread(selected) ==
    LET read == {n \in selected : n.is_read}
    IN
    /\ notifications' = (notifications \ read) \cup {[n EXCEPT !.is_read = FALSE] : n \in read}
    /\ resp' = Response("admin_mark_as_unread", Anon, NoPost, <<>>, 200, Cardinality(read), {})
    /\ UNCHANGED <<now, connVars, feedVars, lastEmit, sideVars>>

\* the clock advances
Tick(d) ==
    /\ now + d <= MaxTime
    /\ now' = now + d
    /\ UNCHANGED <<connVars, feedVars, notifications, lastEmit, sideVars, resp>>

-----------------------------------------------------------------------------
\* Requests served by concurrent workers.  A request on a post first loads the
\* Post row (get_object / get_object_or_404) and later writes: the two steps of
\* different users interleave.  post.save() writes every column of the row from the
\* instance loaded at the first step, except a column assigned an F() expression,
\* which the database computes from its current value.

RequestOps == {"like", "share", "comment", "retrieve"}

\* the first step: the worker of `user` loads the post
BeginRequest(user, op, post, arg) ==
    /\ user \notin DOMAIN inflight
    /\ served < MaxRequests
    /\ served' = served + 1
    /\ IF op = "comment" THEN Len(comments) < MaxComments ELSE post \in GetQueryset(user)
    /\ inflight' = [u \in DOMAIN inflight \cup {user} |->
                       IF u = user THEN [op |-> op, post |-> post, arg |-> arg,
                                         loaded |-> posts[post]]
                       ELSE inflight[u]]
    /\ UNCHANGED <<now, connVars, feedVars, notifications, lastEmit, feedAlgorithms, moreVars,
                   resp>>

\* post.save() of an instance whose column `field` holds F(field) + 1
SaveWithF(loaded, current, field) ==
    [loaded EXCEPT ![field] = current[field] + 1]

\* the second step of PostViewSet.like
FinishLike(user, post, reaction_type, loaded) ==
    IF LikesOf(user, post) # {}
    THEN LET like == CHOOSE l \in LikesOf(user, post) : TRUE
         IN IF like.reaction_type = reaction_type
            THEN /\ postLikes' = postLikes \ {like}
                 /\ posts' = [posts EXCEPT ![post] =
                                 [loaded EXCEPT !.likes_count = Decrement(loaded.likes_count)]]
                 /\ resp' = ResponseTo("like", user, post, reaction_type, 200, "unliked")
                 /\ UNCHANGED <<comments, postShares, postViews, notifications>>
            ELSE /\ postLikes' = UpdateReaction(like, reaction_type)
                 /\ resp' = ResponseTo("like", user, post, reaction_type, 200, "reaction_updated")
                 /\ UNCHANGED <<posts, comments, postShares, postViews, notifications>>
    ELSE /\ postLikes' = postLikes \cup
                            {[user |-> user, post |-> post, reaction_type |-> reaction_type]}
         /\ posts' = [posts EXCEPT ![post] = SaveWithF(loaded, posts[post], "likes_count")]
         /\ notifications' = LikeNotification(notifications, user, post)
         /\ resp' = ResponseTo("like", user, post, reaction_type, 200, "liked")
         /\ UNCHANGED <<comments, postShares, postViews>>

\* the second step of PostViewSet.share
FinishShare(user, post, share_content, loaded) ==
    IF SharesOf(user, post) # {}
    THEN /\ resp' = ResponseTo("share", user, post, share_content, 200, "already_shared")
         /\ UNCHANGED <<posts, postLikes, comments, postShares, postViews, notifications>>
    ELSE /\ postShares' = GetOrCreateShare(user, post, share_content)
         /\ posts' = [posts EXCEPT ![post] = SaveWithF(loaded, posts[post], "shares_count")]
         /\ resp' = IF loaded.author # user
                    THEN ResponseTo("share", user, post, share_content, 500, "type_error")
                    ELSE ResponseTo("share", user, post, share_content, 200, "shared")
         /\ UNCHANGED <<postLikes, comments, postViews, notifications>>

\* the second step of CommentViewSet.create
FinishComment(user, post, loaded) ==
    /\ comments' = Append(comments, [post |-> post, author |-> user, is_approved |-> TRUE,
                                   deleted |-> FALSE])
    /\ posts' = [posts EXCEPT ![post] = SaveWithF(loaded, posts[post], "comments_count")]
    /\ notifications' = CommentNotification(notifications, user, post, Len(comments) + 1)
    /\ resp' = Response("comment_create", user, post, <<>>, 201, "created", {})
    /\ UNCHANGED <<postLikes, postShares, postViews>>

\* the second step of PostViewSet.retrieve: track_post_view on the loaded instance,
\* post.views_count += 1; post.save(update_fields=['views_count'])
FinishRetrieve(user, post, loaded) ==
    /\ IF ~RecentView(post, user)
       THEN /\ postViews' = postViews \cup {[post |-> post, user |-> user, viewed_at |-> now]}
            /\ posts' = [posts EXCEPT ![post].views_count = loaded.views_count + 1]
       ELSE UNCHANGED <<postViews, posts>>
    /\ resp' = Response("retrieve", user, post, <<>>, 200, "ok", {post})
    /\ UNCHANGED <<postLikes, postShares, comments, notifications>>

\* the second step: the worker of `user` writes and answers
FinishRequest(user) ==
    /\ user \in DOMAIN inflight
    /\ LET r == inflight[user] IN
         IF r.op = "like" THEN FinishLike(user, r.post, r.arg, r.loaded)
         ELSE IF r.op = "share" THEN FinishShare(user, r.post, r.arg, r.loaded)
         ELSE IF r.op = "comment" THEN FinishComment(user, r.post, r.loaded)
         ELSE FinishRetrieve(user, r.post, r.loaded)
    /\ inflight' = [u \in DOMAIN inflight \ {user} |-> inflight[u]]
    /\ UNCHANGED <<now, connVars, hashtags, lastEmit, feedAlgorithms, served, moreVars>>

-----------------------------------------------------------------------------
\* Feed preferences (FeedAlgorithm).  Weights are in hundredths: 0.3 is 30.

WeightNames == {"connection_weight", "engagement_weight", "recency_weight",
                "similarity_weight", "trending_weight"}

\* the defaults of the model fields, also the defaults of data.get in validate
DefaultWeights ==
    [connection_weight |-> 30, engagement_weight |-> 20, recency_weight |-> 20,
     similarity_weight |-> 15, trending_weight |-> 15]

MinTotalWeight == 80
MaxTotalWeight == 120

\* data.get(name, default) on the submitted weights
DataGet(data, name) == IF name \in DOMAIN data THEN data[name] ELSE DefaultWeights[name]

\* total_weight = sum(weights)
TotalWeight(data) ==
    DataGet(data, "connection_weight") + DataGet(data, "engagement_weight")
        + DataGet(data, "recency_weight") + DataGet(data, "similarity_weight")
        + DataGet(data, "trending_weight")

\* 0.8 <= total_weight <= 1.2
WeightsValidMutUpperOnly(data) == TotalWeight(data) <= MaxTotalWeight

WeightsValid(data) ==
    MinTotalWeight <= TotalWeight(data) /\ TotalWeight(data) <= MaxTotalWeight

DefaultAlgorithm == [weights |-> DefaultWeights, muted_users |-> {}, muted_hashtags |-> {}]

\* FeedAlgorithmViewSet.get_object: FeedAlgorithm.objects.get_or_create(user=...)
GetOrCreateAlgorithm(user) ==
    [u \in DOMAIN feedAlgorithms \cup {user} |->
        IF u \in DOMAIN feedAlgorithms THEN feedAlgorithms[u] ELSE DefaultAlgorithm]

\* FeedAlgorithmViewSet.update (create delegates to it), partial=True: `weights` holds
\* the weights the request supplies, `muting` the muted lists when it supplies them
FeedAlgorithmUpdate(user, weights, muting) ==
    LET rows == GetOrCreateAlgorithm(user)
        row == rows[user]
        reject(msg) ==
            /\ feedAlgorithms' = rows
            /\ resp' = Response("algorithm_update", user, NoPost, <<>>, 400, msg, {})
    IN
    /\ IF muting.on /\ ~(muting.hashtags \subseteq DOMAIN hashtags)
       THEN reject("invalid_pk")
       ELSE IF ~WeightsValid(weights)
       THEN reject("invalid_weights")
       ELSE /\ feedAlgorithms' =
                 [rows EXCEPT ![user] =
                     [weights |-> [n \in WeightNames |->
                                      IF n \in DOMAIN weights THEN weights[n]
                                      ELSE row.weights[n]],
                      muted_users |-> IF muting.on THEN muting.users ELSE row.muted_users,
                      muted_hashtags |-> IF muting.on THEN muting.hashtags
                                         ELSE row.muted_hashtags]]
            /\ resp' = Response("algorithm_update", user, NoPost, <<>>, 200, "ok", {})
    /\ UNCHANGED <<now, connVars, feedVars, notifications, lastEmit, inflight, served,
                   moreVars>>

\* connections/views.py served by concurrent workers.  respond and withdraw load
\* the ConnectionRequest row with get_object() and run their checks on the loaded
\* instance; the writes follow in a later step.

\* the first part of respond / withdraw: get_object() and the checks
BeginResponder(user, op, req, action_type) ==
    LET out(status, msg) ==
            /\ resp' = Response(op, user, NoPost, req, status, msg, {})
            /\ UNCHANGED responders
        party == IF op = "respond" THEN req[2] ELSE req[1]
    IN
    /\ user \notin DOMAIN responders
    /\ served < MaxRequests
    /\ served' = served + 1
    /\ IF req \notin RequestQueryset(user) THEN out(404, "not_found")
       ELSE IF party # user THEN out(403, "forbidden")
       ELSE IF requests[req] # "pending" THEN out(400, "not_pending")
       ELSE IF op = "respond" /\ action_type \notin {"accept", "decline"}
       THEN out(400, "bad_action")
       ELSE /\ responders' = [u \in DOMAIN responders \cup {user} |->
                                 IF u = user
                                 THEN [op |-> op, req |-> req,
                                       action |-> IF op = "respond" THEN action_type ELSE ""]
                                 ELSE responders[u]]
            /\ UNCHANGED resp
    /\ UNCHANGED <<now, connVars, feedVars, notifications, lastEmit, feedAlgorithms, inflight,
                   requestMessages, jobApplications, applicationCount, postReports, emitters>>

\* the second part: the transaction of respond (status, Connection row and
\* notification commit together; a duplicate Connection row is an IntegrityError
\* that rolls all of it back), or the save() of withdraw
FinishResponder(user) ==
    LET r == responders[user]
        out(status, msg) == resp' = Response(r.op, user, NoPost, r.req, status, msg, {})
    IN
    /\ user \in DOMAIN responders
    /\ responders' = [u \in DOMAIN responders \ {user} |-> responders[u]]
    /\ IF r.op = "withdraw"
       THEN /\ requests' = [requests EXCEPT ![r.req] = "withdrawn"]
            /\ out(200, "withdrawn")
            /\ UNCHANGED <<connections, notifications>>
       ELSE IF r.action = "decline"
       THEN /\ requests' = [requests EXCEPT ![r.req] = "declined"]
            /\ out(200, "declined")
            /\ UNCHANGED <<connections, notifications>>
       ELSE IF r.req \in connections
       THEN /\ out(500, "integrity_error")
            /\ UNCHANGED <<requests, connections, notifications>>
       ELSE /\ requests' = [requests EXCEPT ![r.req] = "accepted"]
            /\ connections' = connections \cup {r.req}
            /\ notifications' = create_notification(notifications,
                                     AcceptNotificationKey(user, r.req), "accepted_request", now)
            /\ out(200, "accepted")
    /\ UNCHANGED <<now, feedVars, lastEmit, feedAlgorithms, inflight, served, requestMessages,
                   jobApplications, applicationCount, postReports, emitters>>

\* the worker dies in the middle of the request: an open transaction is rolled
\* back, nothing of the request is stored
CrashResponder(user) ==
    /\ user \in DOMAIN responders
    /\ responders' = [u \in DOMAIN responders \ {user} |-> responders[u]]
    /\ resp' = Response(responders[user].op, user, NoPost, responders[user].req, 500,
                        "crashed", {})
    /\ UNCHANGED <<now, connVars, feedVars, notifications, lastEmit, feedAlgorithms, inflight,
                   served, requestMessages, jobApplications, applicationCount, postReports,
                   emitters>>

-----------------------------------------------------------------------------
\* feed/utils.py: create_notification called by requests served concurrently.
\* The `existing` query and Notification.objects.create are two statements with
\* no lock and no unique constraint between them.

Workers == {"w1", "w2"}

\* the first statement: existing = Notification.objects.filter(...).exists()
BeginEmit(w, key) ==
    /\ w \notin DOMAIN emitters
    /\ served < MaxRequests
    /\ served' = served + 1
    /\ emitters' = [x \in DOMAIN emitters \cup {w} |->
                       IF x = w THEN [key |-> key, existing |-> Existing(notifications, key, now)]
                       ELSE emitters[x]]
    /\ UNCHANGED <<now, connVars, feedVars, notifications, lastEmit, feedAlgorithms, inflight,
                   requestMessages, jobApplications, applicationCount, postReports, responders,
                   resp>>

\* the second statement: if not existing: Notification.objects.create(...)
FinishEmit(w) ==
    LET e == emitters[w]
        row == NewNotification(e.key, "title", now)
        copies == {n \in notifications : KeyOf(n) = e.key /\ n.created_at = now}
    IN
    /\ w \in DOMAIN emitters
    /\ emitters' = [x \in DOMAIN emitters \ {w} |-> emitters[x]]
    /\ notifications' = IF e.existing THEN notifications
                        ELSE notifications \cup {[row EXCEPT !.copy = Cardinality(copies)]}
    /\ resp' = Response("emit", e.key.sender, e.key.post, <<>>, 0,
                        IF e.existing THEN "none" ELSE "created", {})
    /\ UNCHANGED <<now, connVars, feedVars, lastEmit, feedAlgorithms, inflight, served,
                   requestMessages, jobApplications, applicationCount, postReports,
                   responders>>

-----------------------------------------------------------------------------
\* PostViewSet.report

\* PostReport.objects.filter(post=post).count()
ReportCount(rows, post) ==
    Cardinality({i \in 1..Len(rows) : rows[i][2] = post})

\* the users who have reported the post
ReportersOf(post) ==
    {postReports[i][1] : i \in {k \in 1..Len(postReports) : postReports[k][2] = post}}

\* report_count >= 3
ShouldFlagMutAbove(report_count) ==
    report_count > ReportThreshold

ShouldFlag(report_count) ==
    report_count >= ReportThreshold

\* PostViewSet.report; `valid` is the outcome of PostReportCreateSerializer
PostReport(user, post, valid) ==
    LET out(status, msg) == resp' = Response("report", user, post, <<>>, status, msg, {})
        rows == Append(postReports, <<user, post>>)
    IN
    /\ IF post \notin GetQueryset(user)
       THEN out(404, "not_found") /\ UNCHANGED <<posts, postReports>>
       ELSE IF ~valid
       THEN out(400, "invalid") /\ UNCHANGED <<posts, postReports>>
       ELSE IF \E i \in 1..Len(postReports) : postReports[i] = <<user, post>>
       THEN out(200, "already_reported") /\ UNCHANGED <<posts, postReports>>
       ELSE /\ postReports' = rows
            /\ posts' = IF ShouldFlag(ReportCount(rows, post))
                        THEN [posts EXCEPT ![post].is_reported = TRUE]
                        ELSE posts
            /\ out(200, "reported")
    /\ UNCHANGED <<now, connVars, hashtags, postLikes, postShares, comments, postViews,
                   notifications, lastEmit, feedAlgorithms, inflight, served, requestMessages,
                   jobApplications, applicationCount, responders, emitters>>

-----------------------------------------------------------------------------
\* jobs/views.py, jobs/serializers.py

\* JobApplication.objects.filter(job=job, applicant=user).exists()
HasAppliedMutNever(user, job) ==
    FALSE

HasApplied(user, job) ==
    \E i \in 1..Len(jobApplications) : jobApplications[i] = <<job, user>>

ApplicationsOf(job) ==
    {i \in 1..Len(jobApplications) : jobApplications[i][1] = job}

\* JobViewSet.apply with JobApplicationCreateSerializer; `valid` is the outcome of
\* the field validation of cover_letter, resume and portfolio_url
JobApply(user, job, valid) ==
    LET out(status, msg) ==
            resp' = Response("apply", user, NoPost, <<job, user>>, status, msg, {})
    IN
    /\ IF HasApplied(user, job)
       THEN out(400, "already_applied") /\ UNCHANGED <<jobApplications, applicationCount>>
       ELSE IF ~valid \/ HasApplied(user, job)
       THEN out(400, "invalid") /\ UNCHANGED <<jobApplications, applicationCount>>
       ELSE \* create(): the counter is saved first, then the row is inserted
            /\ applicationCount' = [applicationCount EXCEPT ![job] = @ + 1]
            /\ IF \E i \in 1..Len(jobApplications) : jobApplications[i] = <<job, user>>
               THEN out(500, "integrity_error") /\ UNCHANGED jobApplications
               ELSE /\ jobApplications' = Append(jobApplications, <<job, user>>)
                    /\ out(201, "created")
    /\ UNCHANGED <<now, connVars, feedVars, notifications, lastEmit, feedAlgorithms, inflight,
                   served, requestMessages, postReports, responders, emitters>>

\* PostAdmin: a staff member edits is_approved of a post in the admin site
Moderate(post, approved) ==
    /\ posts' = [posts EXCEPT ![post].is_approved = approved]
    /\ resp' = Response("moderate", Anon, post, <<>>, 200, "saved", {})
    /\ UNCHANGED <<now, connVars, hashtags, postLikes, postShares, comments, postViews,
                   notifications, lastEmit, sideVars>>

\* the clock advances by about half the view window
TickView(d) ==
    /\ now + d <= MaxViewTime
    /\ now' = now + d
    /\ UNCHANGED <<connVars, feedVars, notifications, lastEmit, sideVars, resp>>

-----------------------------------------------------------------------------
\* The database after construction: no rows

NoResponse == Response("none", Anon, NoPost, <<>>, 0, "none", {})

Init ==
    /\ now = 0
    /\ requests = [pr \in Pairs |-> "none"]
    /\ connections = {}
    /\ posts = <<>>
    /\ hashtags = <<>>
    /\ postLikes = {}
    /\ postShares = {}
    /\ comments = <<>>
    /\ postViews = {}
    /\ notifications = {}
    /\ lastEmit = <<>>
    /\ feedAlgorithms = <<>>
    /\ inflight = <<>>
    /\ served = 0
    /\ requestMessages = [pr \in Pairs |-> ""]
    /\ jobApplications = <<>>
    /\ applicationCount = [j \in Jobs |-> 0]
    /\ postReports = <<>>
    /\ responders = <<>>
    /\ emitters = <<>>
    /\ resp = NoResponse

\* inputs of the requests
TagSets == {{}, {"h1"}}
MentionSets(u) == {{}, Users \ {u}}
ActionTypes == {"accept", "decline", "block"}
ShareContents == {"a", "b"}
EmitKeys == {NotifKey(r, sd, k, NoPost, NoComment) :
                r \in {"u1"}, sd \in {"u2"}, k \in {"follow", "system"}}

\* Connections and visibility: the connection requests and posting
Next ==
    \/ \E u \in Users, r \in Users : ConnectionRequestCreate(u, r, "")
    \/ \E u \in Users, req \in Pairs, a \in ActionTypes : Respond(u, req, a)
    \/ \E u \in Users, req \in Pairs : Withdraw(u, req)
    \/ \E u \in Users, c \in Pairs : Remove(u, c)
    \/ \E u \in Users, v \in Visibilities, tags \in TagSets :
          \E m \in MentionSets(u) : Len(posts) < MaxPosts /\ PostCreate(u, v, tags, m)

Spec == Init /\ [][Next]_vars

\* the message of a connection request
Messages == {"", "hello"}

\* Connection requests with messages, answers, withdrawals and removals
NextConn ==
    \/ \E u \in Users, r \in Users, m \in Messages : ConnectionRequestCreate(u, r, m)
    \/ \E u \in Users, req \in Pairs, a \in ActionTypes : Respond(u, req, a)
    \/ \E u \in Users, req \in Pairs : Withdraw(u, req)
    \/ \E u \in Users, c \in Pairs : Remove(u, c)
    \/ Tick(MaxTick)

SpecConn == Init /\ [][NextConn]_vars

\* Answers and withdrawals of connection requests served concurrently
NextRespond ==
    \/ \E u \in Users, r \in Users : ConnectionRequestCreate(u, r, "")
    \/ \E u \in Users, op \in {"respond", "withdraw"}, req \in Pairs, a \in ActionTypes :
          BeginResponder(u, op, req, a)
    \/ \E u \in Users : FinishResponder(u)
    \/ \E u \in Users : CrashResponder(u)
    \/ \E u \in Users, c \in Pairs : Remove(u, c)

SpecRespond == Init /\ [][NextRespond]_vars

\* create_notification called by two requests at a time
NextEmit ==
    \/ \E w \in Workers, key \in EmitKeys : BeginEmit(w, key)
    \/ \E w \in Workers : FinishEmit(w)
    \/ Tick(MaxTick)

SpecEmit == Init /\ [][NextEmit]_vars

\* Reports of a post by three users
NextReport ==
    \/ \E u \in Users, v \in Visibilities : Len(posts) < MaxPosts /\ PostCreate(u, v, {}, {})
    \/ \E u \in Reporters, p \in PostIds, valid \in BOOLEAN : PostReport(u, p, valid)

SpecReport == Init /\ [][NextReport]_vars

\* Job applications
NextJobs ==
    \E u \in Users, j \in Jobs, valid \in BOOLEAN : JobApply(u, j, valid)

SpecJobs == Init /\ [][NextJobs]_vars

\* weights a feed-preferences update may supply: full sets summing to 0.5, 1.5, 1.05
\* and partial ones
WeightInputs ==
    {[n \in WeightNames |-> 10],
     [n \in WeightNames |-> 30],
     [connection_weight |-> 30, engagement_weight |-> 25, recency_weight |-> 20,
      similarity_weight |-> 15, trending_weight |-> 15],
     [connection_weight |-> 50],
     [engagement_weight |-> 40],
     <<>>}
MuteInputs(u) ==
    {[on |-> FALSE, users |-> {}, hashtags |-> {}],
     [on |-> TRUE, users |-> {}, hashtags |-> {}],
     [on |-> TRUE, users |-> Users \ {u}, hashtags |-> {}],
     [on |-> TRUE, users |-> {}, hashtags |-> HashtagNames]}

\* Feed preferences and posts
NextAlgorithm ==
    \/ \E u \in Users, tags \in TagSets : Len(posts) < MaxPosts /\ PostCreate(u, "public", tags, {})
    \/ \E u \in Users, w \in WeightInputs : \E m \in MuteInputs(u) : FeedAlgorithmUpdate(u, w, m)

SpecAlgorithm == Init /\ [][NextAlgorithm]_vars

\* the choice a request carries: a reaction type or a share text
RequestArgs(op) ==
    IF op = "like" THEN {"like", "love"} ELSE IF op = "share" THEN {"a"} ELSE {""}

\* Requests of the two users served concurrently
NextConcurrent ==
    \/ \E u \in Users : Len(posts) < MaxPosts /\ PostCreate(u, "public", {}, {})
    \/ \E u \in Users, op \in RequestOps, p \in PostIds :
          \E a \in RequestArgs(op) : BeginRequest(u, op, p, a)
    \/ \E u \in Users : FinishRequest(u)

SpecConcurrent == Init /\ [][NextConcurrent]_vars

\* The feed of connected and unconnected users over posts made at different times
\* (connection requests go one way, from u1: the other way is symmetric)
NextFeed ==
    \/ \E r \in Users : ConnectionRequestCreate("u1", r, "")
    \/ \E u \in Users, req \in Pairs : Respond(u, req, "accept")
    \/ \E u \in Users, c \in Pairs : Remove(u, c)
    \/ \E u \in Users, v \in Visibilities : PostCreate(u, v, {}, {})
    \/ \E p \in PostIds, a \in BOOLEAN : Moderate(p, a)
    \/ Tick(MaxTick)

SpecFeed == Init /\ [][NextFeed]_vars

\* Reactions over time
NextReact ==
    \/ \E u \in Users, v \in Visibilities : Len(posts) < MaxPosts /\ PostCreate(u, v, {}, {})
    \/ \E u \in Users, p \in PostIds, k \in ReactionTypes : PostLike(u, p, k)
    \/ \E d \in 1..MaxTick : Tick(d)

SpecReact == Init /\ [][NextReact]_vars

\* Shares and comments on posts whose visibility changes
NextEngage ==
    \/ \E u \in Users, v \in Visibilities : Len(posts) < MaxPosts /\ PostCreate(u, v, {}, {})
    \/ \E u \in Users, p \in PostIds, v \in Visibilities : PostUpdate(u, p, v)
    \/ \E u \in Users, p \in PostIds, c \in ShareContents : PostShare(u, p, c)
    \/ \E u \in Users, p \in PostIds : \E m \in MentionSets(u) : CommentCreate(u, p, m)
    \/ \E u \in Users, c \in 1..MaxComments : CommentDelete(u, c)

SpecEngage == Init /\ [][NextEngage]_vars

\* steps of the clock around half the view window: sums reach 30, 31 and 32
ViewTicks == {ViewWindow \div 2, ViewWindow \div 2 + 1}

\* Retrieval over time
NextRetrieve ==
    \/ \E u \in Users, v \in Visibilities : Len(posts) < MaxPosts /\ PostCreate(u, v, {}, {})
    \/ \E u \in Viewers, p \in PostIds : PostRetrieve(u, p)
    \/ \E d \in ViewTicks : TickView(d)

SpecRetrieve == Init /\ [][NextRetrieve]_vars

\* The notification emitter called directly over time
NextNotify ==
    \/ \E key \in EmitKeys : EmitNotification(key)
    \/ \E d \in 1..MaxTick : Tick(d)

SpecNotify == Init /\ [][NextNotify]_vars

\* Notifications emitted, read through the API and edited in the admin site
NextRead ==
    \/ \E key \in EmitKeys : EmitNotification(key)
    \/ \E u \in Users, n \in notifications : MarkRead(u, n)
    \/ \E u \in Users : MarkAllRead(u)
    \/ \E n \in notifications : AdminMarkAsRead({n})
    \/ \E n \in notifications : AdminMarkAsUnread({n})
    \/ Tick(MaxTick)

SpecRead == Init /\ [][NextRead]_vars

-----------------------------------------------------------------------------
\* Properties

C8_AcceptNotifiesSender ==
    [][\A u \in Users, req \in Pairs :
          (requests[req] = "pending" /\ req[2] = u /\ Respond(u, req, "accept")) =>
              /\ requests'[req] = "accepted"
              /\ \E c \in connections' : {c[1], c[2]} = {req[1], req[2]}
              /\ \E n \in notifications' \ notifications :
                    n.recipient = req[1] /\ n.title = "accepted_request"]_vars

\* C3: an unauthenticated viewer who requests a post by id receives it when it
\* is public and approved, and does not receive it when it is private or
\* connections-only.
C3_AnonymousRetrieve ==
    (resp.op = "retrieve" /\ resp.user = Anon) =>
        /\ (posts[resp.post].visibility = "public" /\ posts[resp.post].is_approved)
              => (resp.status = 200 /\ resp.post \in resp.posts)
        /\ posts[resp.post].visibility # "public" => resp.status # 200

\* C4: from a state where u has no reaction on a visible post p, like(u,p,k)
\* answers 'liked', stores the row and adds one to likes_count; the same request
\* repeated right after answers 'unliked', leaves no row for (u,p) and takes the
\* one off again, so likes_count is back at its value before the first request.
C4_SameKindTwiceRestores ==
    [][\A u \in Users, p \in PostIds, k \in ReactionTypes :
          /\ (p \in GetQueryset(u) /\ LikesOf(u, p) = {} /\ PostLike(u, p, k)) =>
                /\ resp'.data = "liked"
                /\ LikesOf(u, p)' = {[user |-> u, post |-> p, reaction_type |-> k]}
                /\ posts'[p].likes_count = posts[p].likes_count + 1
          /\ (resp = ResponseTo("like", u, p, k, 200, "liked") /\ PostLike(u, p, k)) =>
                /\ resp'.data = "unliked"
                /\ LikesOf(u, p)' = {}
                /\ posts'[p].likes_count = posts[p].likes_count - 1
                /\ posts'[p].likes_count >= 0]_vars

\* a reaction was toggled off again by somebody else than the author
C4_Witness ==
    /\ resp.op = "like" /\ resp.data = "unliked"
    /\ resp.user # posts[resp.post].author
    /\ LikesOf(resp.user, resp.post) = {}
    /\ posts[resp.post].likes_count = 0

\* C5 as stated: for any u, visible p and distinct kinds A and B, like(u,p,A)
\* followed by like(u,p,B) leaves exactly one row for (u,p), of kind B, the second
\* request answers 'reaction_updated' and likes_count is unchanged by it.
C5_SwapAsStated ==
    [][\A u \in Users, p \in PostIds, A \in ReactionTypes, B \in ReactionTypes :
          (/\ A # B
           /\ resp.op = "like" /\ resp.user = u /\ resp.post = p /\ resp.arg = A
           /\ resp.status = 200
           /\ PostLike(u, p, B)) =>
                /\ LikesOf(u, p)' = {[user |-> u, post |-> p, reaction_type |-> B]}
                /\ resp'.data = "reaction_updated"
                /\ posts'[p].likes_count = posts[p].likes_count]_vars

\* C5 amended: the same, when the first request left a reaction of kind A (it
\* answered 'liked' or 'reaction_updated': u held no reaction of kind A before it).
C5_SwapKeepsOneRow ==
    [][\A u \in Users, p \in PostIds, A \in ReactionTypes, B \in ReactionTypes :
          (/\ A # B
           /\ resp.op = "like" /\ resp.user = u /\ resp.post = p /\ resp.arg = A
           /\ resp.status = 200 /\ resp.data \in {"liked", "reaction_updated"}
           /\ PostLike(u, p, B)) =>
                /\ LikesOf(u, p)' = {[user |-> u, post |-> p, reaction_type |-> B]}
                /\ resp'.data = "reaction_updated"
                /\ posts'[p].likes_count = posts[p].likes_count]_vars

\* a reaction was swapped: the row holds the new kind and the counter is still 1
C5_Witness ==
    /\ resp.op = "like" /\ resp.data = "reaction_updated" /\ resp.arg = "wow"
    /\ LikesOf(resp.user, resp.post) =
          {[user |-> resp.user, post |-> resp.post, reaction_type |-> "wow"]}
    /\ posts[resp.post].likes_count = 1

\* C6: at most one Share row exists per (user, post); a share request by a user
\* who already has a Share row for the post changes neither the Share rows nor the
\* post's counters nor the notifications, and answers 'already_shared' (whenever
\* the post is still in the user's queryset; otherwise it is answered 404).
C6_ShareOnce ==
    /\ [](\A u \in Users, p \in PostIds : Cardinality(SharesOf(u, p)) <= 1)
    /\ [][\A u \in Users, p \in PostIds, c \in ShareContents :
             (SharesOf(u, p) # {} /\ PostShare(u, p, c)) =>
                /\ UNCHANGED <<postShares, posts, notifications>>
                /\ p \in GetQueryset(u) => resp'.data = "already_shared"]_vars

\* a second share, with another text, was answered 'already_shared'
C6_Witness ==
    /\ resp.op = "share" /\ resp.data = "already_shared"
    /\ \E sh \in SharesOf(resp.user, resp.post) : sh.share_content # resp.arg
    /\ posts[resp.post].shares_count = 1

\* C7 as stated: of two consecutive create_notification calls with the same tuple,
\* the second less than 5 minutes after the first, exactly one Notification of the
\* tuple is stored and the second call returns nothing; when the second call is
\* more than 5 minutes later it stores a second, unread Notification.
C7_DedupAsStated ==
    [][\A key \in EmitKeys :
          (key \in DOMAIN lastEmit /\ EmitNotification(key)) =>
              /\ now - lastEmit[key].at < NotifWindow =>
                    /\ resp'.data = "none"
                    /\ Cardinality({n \in notifications' : KeyOf(n) = key}) = 1
              /\ now - lastEmit[key].at > NotifWindow =>
                    \E n \in notifications' \ notifications :
                        KeyOf(n) = key /\ ~n.is_read /\ n.created_at = now]_vars

\* C7 amended: when the first call stored a Notification, a second call less than
\* 5 minutes after it returns nothing and stores nothing, so that exactly one
\* Notification of the tuple was stored by the two calls; a second call more than
\* 5 minutes after the first stores a new unread Notification.
C7_DedupWindow ==
    [][\A key \in EmitKeys :
          (key \in DOMAIN lastEmit /\ EmitNotification(key)) =>
              /\ (now - lastEmit[key].at < NotifWindow /\ lastEmit[key].created) =>
                    /\ resp'.data = "none"
                    /\ notifications' = notifications
                    /\ Cardinality({n \in notifications' :
                          KeyOf(n) = key /\ n.created_at >= lastEmit[key].at}) = 1
              /\ now - lastEmit[key].at > NotifWindow =>
                    /\ resp'.data = "created"
                    /\ \E n \in notifications' \ notifications :
                          KeyOf(n) = key /\ ~n.is_read /\ n.created_at = now]_vars

\* a call within the window of a stored notification returned nothing, and an
\* older notification of the same tuple shows a call outside the window stored one
C7_Witness ==
    /\ resp.op = "emit" /\ resp.data = "none"
    /\ \E key \in DOMAIN lastEmit :
          /\ lastEmit[key].at = now /\ ~lastEmit[key].created
          /\ Cardinality({n \in notifications : KeyOf(n) = key}) = 2

\* C9: a comment by a user other than the post's author stores exactly one new
\* 'comment' notification, for the author and linked to the new comment; a comment
\* by the author stores no 'comment' notification.
C9_CommentNotifiesAuthorOnce ==
    [][\A u \in Users, p \in PostIds : \A m \in MentionSets(u) :
          CommentCreate(u, p, m) =>
              LET new == {n \in notifications' \ notifications :
                             n.notification_type = "comment"}
              IN IF posts[p].author # u
                 THEN /\ Cardinality(new) = 1
                      /\ \A n \in new : /\ n.recipient = posts[p].author
                                        /\ n.sender = u
                                        /\ n.post = p
                                        /\ n.comment = Len(comments')
                      /\ Cardinality({n \in notifications' :
                            n.notification_type = "comment" /\ n.comment = Len(comments')}) = 1
                 ELSE new = {}]_vars

\* two comments on the same post by the same user: one notification each
C9_Witness ==
    /\ resp.op = "comment_create"
    /\ Len(comments) = 2
    /\ comments[1] = comments[2]
    /\ comments[1].author # posts[comments[1].post].author
    /\ Cardinality({n \in notifications : n.notification_type = "comment"}) = 2

\* C10 as stated: every like request that creates a reaction row stores exactly
\* one new 'like' notification for the author when the user is not the author
\* (a re-like after an unlike included), and none when the user is the author.
C10_LikeNotifiesAsStated ==
    [][\A u \in Users, p \in PostIds, k \in ReactionTypes :
          (p \in GetQueryset(u) /\ LikesOf(u, p) = {} /\ PostLike(u, p, k)) =>
              LET new == {n \in notifications' \ notifications :
                             n.notification_type = "like"}
              IN IF posts[p].author # u
                 THEN /\ Cardinality(new) = 1
                      /\ \A n \in new : n.recipient = posts[p].author /\ n.post = p
                 ELSE new = {}]_vars

\* C10 amended: such a request stores exactly one new 'like' notification for the
\* author unless a 'like' notification of the same user for the same post was stored
\* in the last 5 minutes (a re-like inside the window), and then it stores none; a
\* new reaction by the author stores none.
C10_LikeNotifiesOutsideWindow ==
    [][\A u \in Users, p \in PostIds, k \in ReactionTypes :
          (p \in GetQueryset(u) /\ LikesOf(u, p) = {} /\ PostLike(u, p, k)) =>
              LET new == {n \in notifications' \ notifications :
                             n.notification_type = "like"}
                  recent == \E n \in notifications :
                               /\ n.notification_type = "like" /\ n.post = p
                               /\ n.sender = u /\ n.recipient = posts[p].author
                               /\ n.comment = NoComment
                               /\ now - n.created_at <= NotifWindow
              IN IF posts[p].author # u /\ ~recent
                 THEN /\ Cardinality(new) = 1
                      /\ \A n \in new : /\ n.recipient = posts[p].author /\ n.post = p
                                        /\ n.sender = u /\ n.created_at = now
                 ELSE new = {}]_vars

\* a re-like more than 5 minutes after the first like stored a second notification
C10_Witness ==
    /\ resp.op = "like" /\ resp.data = "liked"
    /\ resp.user # posts[resp.post].author
    /\ Cardinality({n \in notifications :
          n.notification_type = "like" /\ n.sender = resp.user /\ n.post = resp.post}) = 2

\* C11: the first share request by a user who is not the post's author creates
\* the Share row, adds exactly one to shares_count, stores one 'share'
\* notification for the author and answers 'shared' (status 200).
C11_FirstShareSucceeds ==
    [][\A u \in Users, p \in PostIds, c \in ShareContents :
          (/\ p \in GetQueryset(u) /\ SharesOf(u, p) = {} /\ posts[p].author # u
           /\ PostShare(u, p, c)) =>
              /\ SharesOf(u, p)' = {[user |-> u, post |-> p, share_content |-> c]}
              /\ posts'[p].shares_count = posts[p].shares_count + 1
              /\ resp'.status = 200 /\ resp'.data = "shared"
              /\ Cardinality({n \in notifications' \ notifications :
                    /\ n.notification_type = "share"
                    /\ n.recipient = posts[p].author /\ n.post = p}) = 1]_vars

C13_StatusOneShot ==
    [][\A pr \in Pairs :
          requests[pr] \in {"accepted", "declined", "withdrawn"} =>
              requests'[pr] = requests[pr]]_vars

\* C14: after any sequence of like requests handled one at a time (new reaction,
\* same-kind toggle-off, different-kind swap) a post's likes_count equals the
\* number of its reaction rows, and is never negative.
C14_LikesCountMatchesRows ==
    \A p \in PostIds :
        /\ posts[p].likes_count = Cardinality({l \in postLikes : l.post = p})
        /\ posts[p].likes_count >= 0

\* both users hold a reaction and the last request swapped one
C14_Witness ==
    /\ resp.op = "like" /\ resp.data = "reaction_updated"
    /\ posts[resp.post].likes_count = 2
    /\ Cardinality({l \in postLikes : l.post = resp.post}) = 2
    /\ now > 0

\* C15: after any sequence of comment create and comment delete requests handled
\* one at a time, a post's comments_count equals the number of Comment rows that
\* belong to the post.
C15_CommentsCountMatchesRows ==
    \A p \in PostIds :
        posts[p].comments_count =
            Cardinality({c \in CommentIds : ~comments[c].deleted /\ comments[c].post = p})

\* C16: for any interleaving of concurrent requests of distinct users on a post
\* (new reactions, removals, shares, comments, views), once every request has
\* completed each counter equals the number of the corresponding rows (posts start
\* with no rows and counters 0): no counter update is lost.
C16_NoLostCounterUpdate ==
    inflight = <<>> =>
        \A p \in PostIds :
            /\ posts[p].likes_count = Cardinality({l \in postLikes : l.post = p})
            /\ posts[p].shares_count = Cardinality({sh \in postShares : sh.post = p})
            /\ posts[p].comments_count =
                  Cardinality({c \in CommentIds : ~comments[c].deleted /\ comments[c].post = p})
            /\ posts[p].views_count = Cardinality({v \in postViews : v.post = p})

\* C17: a user who is not the author of a post or comment (and not staff: no
\* user of the model is) cannot update or delete it: the request, for an object
\* the user can read, is answered 403 and the object and the counters are left as
\* they were.
C17_OnlyAuthorUpdatesOrDeletes ==
    [][/\ \A u \in Users, p \in PostIds, v \in Visibilities :
             (posts[p].author # u /\ p \in GetQueryset(u) /\ PostUpdate(u, p, v)) =>
                 resp'.status = 403 /\ posts' = posts
       /\ \A u \in Users, c \in CommentIds :
             (~comments[c].deleted /\ comments[c].author # u /\ CommentDelete(u, c)) =>
                 resp'.status = 403 /\ comments' = comments /\ posts' = posts]_vars

\* C18: for an authenticated user and a post, no two PostView rows of the same
\* (user, post) lie within 30 minutes of each other; a retrieve less than 30
\* minutes after the user's last recorded view adds no row and leaves views_count
\* unchanged, and a (successful) retrieve more than 30 minutes after it adds one
\* row and adds exactly one to views_count.
C18_OneViewPerWindow ==
    /\ [](\A a \in postViews, b \in postViews :
             (a # b /\ a.user = b.user /\ a.post = b.post) =>
                 (a.viewed_at - b.viewed_at > ViewWindow \/ b.viewed_at - a.viewed_at > ViewWindow))
    /\ [][\A u \in Users, p \in PostIds :
             LET mine == {v \in postViews : v.post = p /\ v.user = u}
                 last == CHOOSE v \in mine : \A w \in mine : w.viewed_at <= v.viewed_at
             IN (mine # {} /\ PostRetrieve(u, p)) =>
                   /\ now - last.viewed_at < ViewWindow =>
                         /\ postViews' = postViews
                         /\ posts'[p].views_count = posts[p].views_count
                   /\ (now - last.viewed_at > ViewWindow /\ RetrieveStatus(u, p) = 200) =>
                         /\ postViews' = postViews \cup
                                           {[post |-> p, user |-> u, viewed_at |-> now]}
                         /\ Cardinality(postViews') = Cardinality(postViews) + 1
                         /\ posts'[p].views_count = posts[p].views_count + 1]_vars

\* a user's second view was recorded 31 minutes after the first, and the last
\* retrieve, inside the window of the second, recorded nothing
C18_Witness ==
    /\ resp.op = "retrieve" /\ resp.status = 200
    /\ {v.viewed_at : v \in {w \in postViews : w.user = resp.user /\ w.post = resp.post}}
          = {0, ViewWindow + 1}
    /\ now > ViewWindow + 1
    /\ posts[resp.post].views_count >= 2

C21_DuplicateOrSelfRejected ==
    [][\A u \in Users, r \in Users, m \in Messages :
          ((r = u \/ requests[<<u, r>>] = "pending") /\ ConnectionRequestCreate(u, r, m))
              => /\ resp'.status = 400
                 /\ UNCHANGED <<requests, requestMessages, connections, notifications>>]_vars

\* a duplicate request with another message was rejected and the stored one kept
C21_Witness ==
    /\ resp.op = "request_create" /\ resp.data = "already_sent" /\ resp.status = 400
    /\ requests[resp.req] = "pending"
    /\ resp.arg # requestMessages[resp.req]

\* C22: after any sequence of apply requests there is at most one JobApplication
\* per (job, applicant), every job's application_count equals the number of its
\* applications, and an apply by a user who has already applied to the job is
\* answered 400 and changes neither the applications nor the counter.
C22_OneApplicationCounted ==
    /\ [](/\ \A i, k \in 1..Len(jobApplications) :
                 jobApplications[i] = jobApplications[k] => i = k
          /\ \A j \in Jobs : applicationCount[j] = Cardinality(ApplicationsOf(j)))
    /\ [][\A u \in Users, j \in Jobs, valid \in BOOLEAN :
             ((\E i \in 1..Len(jobApplications) : jobApplications[i] = <<j, u>>)
                 /\ JobApply(u, j, valid))
                 => /\ resp'.status = 400
                    /\ UNCHANGED <<jobApplications, applicationCount>>]_vars

\* a second apply with valid data was rejected after two users applied to the job
C22_Witness ==
    /\ resp.op = "apply" /\ resp.data = "already_applied"
    /\ applicationCount["j1"] = 2
    /\ Cardinality(ApplicationsOf("j1")) = 2

\* C23 as stated: marking an unread notification read sets is_read and read_at,
\* marking a read one changes nothing, and no operation returns a read
\* notification to unread.
C23_NeverUnreadAgain ==
    [][\A n \in notifications :
          n.is_read => \E m \in notifications' :
              KeyOf(m) = KeyOf(n) /\ m.created_at = n.created_at /\ m.is_read]_vars

\* C23: mark_read by the recipient turns an unread notification into a read one
\* whose read_at is the time of the call and leaves a read one as it is, and no
\* request of the notification API (mark_read, mark_all_read) nor the emitter
\* returns a read notification to unread or changes its read_at.
C23_MarkReadOnce ==
    /\ [][\A u \in Users, n \in notifications :
             (n.recipient = u /\ MarkRead(u, n))
                 => IF n.is_read THEN notifications' = notifications
                    ELSE notifications' = (notifications \ {n})
                            \cup {[n EXCEPT !.is_read = TRUE, !.read_at = now]}]_vars
    /\ [][((\E u \in Users, n \in notifications : MarkRead(u, n))
             \/ (\E u \in Users : MarkAllRead(u))
             \/ (\E key \in EmitKeys : EmitNotification(key)))
            => \A n \in notifications : n.is_read => n \in notifications']_vars

\* a notification read earlier was marked read again at a later time
C23_Witness ==
    /\ resp.op = "mark_read" /\ resp.status = 200
    /\ \E n \in notifications :
          n.recipient = resp.user /\ n.is_read /\ n.read_at # NoTime /\ n.read_at < now

\* C24: in every state reachable by create, respond, withdraw and remove there
\* is at most one Connection row per unordered pair of users: never both
\* (A, B) and (B, A).
C24_OneConnectionPerPair ==
    \A c \in connections : <<c[2], c[1]>> \notin connections

\* C25: in every reachable state, with respond and withdraw on the same request
\* served concurrently and a worker that may die in the middle of an accept,
\* the originating request of every Connection row has status 'accepted'.
C25_ConnectionImpliesAccepted ==
    \A c \in connections : requests[c] = "accepted"

\* C26: after any sequence of accepted feed-preferences updates, full or
\* partial, the five stored weights sum to a value within [0.8, 1.2].
C26_StoredWeightSum ==
    \A u \in DOMAIN feedAlgorithms :
        /\ TotalWeight(feedAlgorithms[u].weights) >= MinTotalWeight
        /\ TotalWeight(feedAlgorithms[u].weights) <= MaxTotalWeight

C28_NoCommentOnInvisiblePost ==
    [][\A u \in Users, p \in PostIds : \A m \in MentionSets(u) :
          (/\ posts[p].author # u
           /\ \/ posts[p].visibility = "private"
              \/ /\ posts[p].visibility = "connections"
                 /\ posts[p].author \notin get_user_connections(u)
           /\ CommentCreate(u, p, m))
              => /\ resp'.status \in {403, 404}
                 /\ comments' = comments
                 /\ posts'[p].comments_count = posts[p].comments_count]_vars

\* C29: after any sequence of report requests served one at a time on a post
\* that starts unreported, there is at most one report per (reporter, post), a
\* repeated report changes nothing and is answered 'already_reported', and
\* is_reported is true exactly when at least 3 distinct users have reported
\* the post.
C29_ReportOnceFlagAtThree ==
    /\ [](/\ \A i, k \in 1..Len(postReports) : postReports[i] = postReports[k] => i = k
          /\ \A p \in PostIds : posts[p].is_reported <=> Cardinality(ReportersOf(p)) >= 3)
    /\ [][\A u \in Reporters, p \in PostIds, valid \in BOOLEAN :
             ((\E i \in 1..Len(postReports) : postReports[i] = <<u, p>>)
                 /\ PostReport(u, p, valid))
                 => /\ UNCHANGED <<posts, postReports>>
                    /\ (valid /\ p \in GetQueryset(u)) => resp'.data = "already_reported"]_vars

\* a repeated report of a post that three users have reported
C29_Witness ==
    /\ resp.op = "report" /\ resp.data = "already_reported"
    /\ posts[resp.post].is_reported
    /\ Cardinality(ReportersOf(resp.post)) = 3

\* C30: when two requests call create_notification concurrently with the same
\* (recipient, sender, kind, post, comment) tuple, in every interleaving at
\* most one Notification for that tuple is stored within the 5-minute window.
C30_OnePerWindowConcurrently ==
    \A n, m \in notifications :
        (/\ KeyOf(n) = KeyOf(m)
         /\ n.created_at - m.created_at <= NotifWindow
         /\ m.created_at - n.created_at <= NotifWindow)
            => n = m

====
